---- MODULE Spec2Model ----
(***************************************************************************)
(* A model of capstone_assignment/electricity_pipeline.py: the loader that *)
(* merges the per-building CSV files of a directory, the aggregation       *)
(* functions, the Building/BuildingManager classes, the summary report and *)
(* the stages of main().                                                   *)
(*                                                                         *)
(* A timestamp is a number of hours since the midnight that starts a       *)
(* Saturday, and the meters are read every 18 hours: at hours 0 and 18 of  *)
(* day 0 (the Saturday), hour 36 (noon of day 1, a Sunday), hour 54 (day   *)
(* 2, a Monday), and so on.  Energy values are whole numbers of kWh.  A    *)
(* missing value (pandas NaT / NaN) is the empty tuple and a present value *)
(* v is the one-element tuple <<v>>.                                       *)
(***************************************************************************)
EXTENDS Integers, Sequences, FiniteSets, TLC

\* The most rows the files of the directory hold together.
MaxRows == 2
\* The number of the latest meter reading time (reading n is at hour 18 * n).
MaxTs == 3
\* The largest kWh value of a reading.
MaxKwh == 2

\* The base names (Path.stem) of the files the directory may hold, in
\* lexicographic order: groupby sorts its keys in this order.
Stems == <<"bldgA", "bldgB">>

VARIABLES
    data_exists,   \* data_path.exists()
    files,         \* the directory: files[i] is the file Stems[i] + ".csv"
    todo,          \* the files data_path.glob("*.csv") has not yielded yet
    combined_df,   \* load_energy_data's combined_df: a sequence of rows
    log,           \* the files logged with logging.error, and "data" for the folder
    pc,            \* the position of main()
    summary_df,    \* main's summary_df
    outputs,       \* the files main has written, each <<>> or <<content>>
    stdout,        \* the messages printed so far
    buildings,     \* BuildingManager.buildings, in insertion order
    fed,           \* how many rows of combined_df were given to add_reading
    run,           \* 1 in the first run of the pipeline, 2 in a second run
    first_outputs  \* the files the first run wrote

vars == <<data_exists, files, todo, combined_df, log, pc, summary_df, outputs,
          stdout, buildings, fed, run, first_outputs>>

----------------------------------------------------------------------------
(* Values *)

NaN == <<>>
NaT == <<>>
Val(n) == <<n>>
IsNull(x) == x = <<>>

\* A cell of a CSV file: empty, a text that is no number and no date, or a value.
EmptyCell == [kind |-> "empty", v |-> 0]
TextCell == [kind |-> "text", v |-> 0]
ValueCell(n) == [kind |-> "value", v |-> n]

TimestampCells == {EmptyCell, TextCell} \cup {ValueCell(18 * t) : t \in 0..MaxTs}
KwhCells == {EmptyCell} \cup {ValueCell(k) : k \in 1..MaxKwh}

\* A file that is not in the directory.
Absent == [present |-> FALSE, readable |-> FALSE, columns |-> {}, rows |-> <<>>]
\* A file pd.read_csv raises on (no header line, not decodable, not readable).
Unreadable == [present |-> TRUE, readable |-> FALSE, columns |-> {}, rows |-> <<>>]

\* The rows of a file with the given columns; a cell of a column the file
\* does not have is written EmptyCell and is never read.
RowsOver(columns) ==
    {[timestamp |-> t, kwh |-> k] :
        t \in (IF "timestamp" \in columns THEN TimestampCells ELSE {EmptyCell}),
        k \in (IF "kwh" \in columns THEN KwhCells ELSE {EmptyCell})}

ColumnSets == {{"timestamp", "kwh"}, {"timestamp"}, {"kwh"}}

\* The files with exactly n rows, before their rows are filled in.
FileHeads(n) ==
    (IF n = 0 THEN {Absent, Unreadable} ELSE {})
    \cup {[present |-> TRUE, readable |-> TRUE, columns |-> c, rows |-> <<>>] :
            c \in ColumnSets}

\* The files with the head h and n rows.
FilesOf(h, n) == {[h EXCEPT !.rows = r] : r \in [1..n -> RowsOver(h.columns)]}

\* The ways to spread at most n rows over the files of the directory.
RowCounts(n) ==
    {c \in [1..Len(Stems) -> 0..n] : c[1] + c[2] <= n}

NoFile == <<>>
NoOutputs == [building_summary_csv |-> NoFile, cleaned_energy_data_csv |-> NoFile,
              dashboard_png |-> NoFile, summary_txt |-> NoFile]

----------------------------------------------------------------------------
(* TASK 1: load_energy_data *)

\* pd.to_datetime on one cell of a column that holds no text: an empty cell
\* becomes NaT.
to_datetime(cell) == IF cell.kind = "value" THEN Val(cell.v) ELSE NaT

\* The float read_csv makes of a kwh cell.
read_kwh(cell) == IF cell.kind = "value" THEN Val(cell.v) ELSE NaN

\* ProcessingError without the check of line 39 for the kwh column.
ProcessingError_NoKwhCheck(file) ==
    IF ~file.readable THEN "read_csv"
    ELSE IF "timestamp" \notin file.columns THEN "timestamp column missing"
    ELSE IF \E i \in 1..Len(file.rows) : file.rows[i].timestamp.kind = "text"
         THEN "to_datetime"
    ELSE ""

\* What the try block of the loop raises on a file, "" when it raises nothing.
ProcessingError(file) ==
    IF ~file.readable THEN "read_csv"
    ELSE IF "timestamp" \notin file.columns THEN "timestamp column missing"
    ELSE IF \E i \in 1..Len(file.rows) : file.rows[i].timestamp.kind = "text"
         THEN "to_datetime"
    ELSE IF "kwh" \notin file.columns THEN "kwh column missing"
    ELSE ""

\* df as it is when the try block reaches pd.concat.
Frame(stem, file) ==
    [i \in 1..Len(file.rows) |->
        [timestamp |-> to_datetime(file.rows[i].timestamp),
         kwh |-> read_kwh(file.rows[i].kwh),
         building |-> stem]]

\* concat that keeps only the frame of the last file (combined_df = df).
concat_Overwrite(df1, df2) == df2

\* pd.concat([combined_df, df], ignore_index=True)
concat(df1, df2) == df1 \o df2

----------------------------------------------------------------------------
(* TASK 2: aggregation functions *)

\* The kwh column of a table.
KwhColumn(df) == [i \in 1..Len(df) |-> df[i].kwh]

\* The values of a column that are not NaN.
DropNa(s) == SelectSeq(s, LAMBDA x : ~IsNull(x))

RECURSIVE SumValues(_)
SumValues(s) == IF s = <<>> THEN 0 ELSE Head(s)[1] + SumValues(Tail(s))

SetMin(S) == CHOOSE x \in S : \A y \in S : x <= y
SetMax(S) == CHOOSE x \in S : \A y \in S : y <= x
Values(s) == {s[i][1] : i \in 1..Len(s)}

\* Series.sum(): NaN is skipped and the sum of nothing is 0.
pd_sum(s) == Val(SumValues(DropNa(s)))
\* Series.min() and Series.max(): NaN is skipped, NaN when nothing is left.
pd_min(s) == IF DropNa(s) = <<>> THEN NaN ELSE Val(SetMin(Values(DropNa(s))))
pd_max(s) == IF DropNa(s) = <<>> THEN NaN ELSE Val(SetMax(Values(DropNa(s))))
\* Series.mean(), kept as the pair <<sum, count>> of the quotient sum / count.
pd_mean(s) ==
    IF DropNa(s) = <<>> THEN NaN ELSE <<SumValues(DropNa(s)), Len(DropNa(s))>>

\* idxmax that takes the last occurrence of the largest value.
idxmax_Last(s) ==
    IF DropNa(s) = <<>> THEN 0
    ELSE LET m == SetMax(Values(DropNa(s)))
         IN  CHOOSE i \in 1..Len(s) :
                /\ s[i] = Val(m)
                /\ \A j \in (i + 1)..Len(s) : s[j] # Val(m)

\* Series.idxmax(): the position of the first occurrence of the largest value
\* that is not NaN; 0 when every value is NaN (or there is none), where pandas
\* raises ValueError or returns NaN, on which DataFrame.loc raises KeyError.
idxmax(s) ==
    IF DropNa(s) = <<>> THEN 0
    ELSE LET m == SetMax(Values(DropNa(s)))
         IN  CHOOSE i \in 1..Len(s) :
                /\ s[i] = Val(m)
                /\ \A j \in 1..(i - 1) : s[j] # Val(m)

\* The calendar day a timestamp falls on.
DayOf(t) == t \div 24
\* The timestamp of the midnight that starts a day.
DayStart(d) == 24 * d
\* The Sunday that ends the week of day d (resample("W") is W-SUN, closed and
\* labelled on the right); day 1 is a Sunday.
WeekEnd(d) == d + ((1 - d) % 7)

\* The rows resample bins: a row whose timestamp is NaT falls in no bin.
Stamped(df) == SelectSeq(df, LAMBDA r : ~IsNull(r.timestamp))

DaysOf(df) == {DayOf(df[i].timestamp[1]) : i \in 1..Len(df)}

\* calculate_daily_totals as a groupby on the date would compute it: a day
\* without a reading gets no row.
calculate_daily_totals_NoFill(df) ==
    LET rows == Stamped(df)
        days == SelectSeq([d \in 1..(MaxTs + 1) |-> d - 1], LAMBDA d : d \in DaysOf(rows))
    IN  [k \in 1..Len(days) |->
            [timestamp |-> Val(DayStart(days[k])),
             kwh |-> pd_sum(KwhColumn(SelectSeq(rows,
                        LAMBDA r : DayOf(r.timestamp[1]) = days[k])))]]

\* df.set_index("timestamp").resample("D")["kwh"].sum().reset_index()
calculate_daily_totals(df) ==
    LET rows == Stamped(df)
    IN  IF rows = <<>> THEN <<>>
        ELSE LET lo == SetMin(DaysOf(rows))
                 hi == SetMax(DaysOf(rows))
             IN  [k \in 1..(hi - lo + 1) |->
                    [timestamp |-> Val(DayStart(lo + k - 1)),
                     kwh |-> pd_sum(KwhColumn(SelectSeq(rows,
                                LAMBDA r : DayOf(r.timestamp[1]) = lo + k - 1)))]]

\* df.set_index("timestamp").resample("W")["kwh"].sum().reset_index()
calculate_weekly_aggregates(df) ==
    LET rows == Stamped(df)
    IN  IF rows = <<>> THEN <<>>
        ELSE LET lo == WeekEnd(SetMin(DaysOf(rows)))
                 hi == WeekEnd(SetMax(DaysOf(rows)))
             IN  [k \in 1..((hi - lo) \div 7 + 1) |->
                    [timestamp |-> Val(DayStart(lo + 7 * (k - 1))),
                     kwh |-> pd_sum(KwhColumn(SelectSeq(rows,
                                LAMBDA r : WeekEnd(DayOf(r.timestamp[1])) = lo + 7 * (k - 1))))]]

\* The rows of one building, in table order.
Group(df, b) == SelectSeq(df, LAMBDA r : r.building = b)

\* The rows of the summary for the buildings Stems[i], Stems[i+1], ...:
\* groupby yields its groups sorted by key.
RECURSIVE SummaryFrom(_, _)
SummaryFrom(df, i) ==
    IF i > Len(Stems) THEN <<>>
    ELSE (IF Group(df, Stems[i]) = <<>> THEN <<>>
          ELSE <<[building |-> Stems[i],
                  total |-> pd_sum(KwhColumn(Group(df, Stems[i]))),
                  mean |-> pd_mean(KwhColumn(Group(df, Stems[i]))),
                  min |-> pd_min(KwhColumn(Group(df, Stems[i]))),
                  max |-> pd_max(KwhColumn(Group(df, Stems[i])))]>>)
         \o SummaryFrom(df, i + 1)

\* df.groupby("building")["kwh"].agg(total, mean, min, max).reset_index()
building_wise_summary(df) == SummaryFrom(df, 1)

----------------------------------------------------------------------------
(* TASK 3: Building and BuildingManager *)

\* The builtin sum over floats: NaN as soon as one term is NaN.
py_sum(s) == IF \E i \in 1..Len(s) : IsNull(s[i]) THEN NaN ELSE Val(SumValues(s))

\* Building.calculate_total_consumption
calculate_total_consumption(b) ==
    py_sum([i \in 1..Len(b.meter_readings) |-> b.meter_readings[i].kwh])

\* The position of a building in the dict, 0 when it has none.
Lookup(bs, name) ==
    IF \E i \in 1..Len(bs) : bs[i].name = name
    THEN CHOOSE i \in 1..Len(bs) : bs[i].name = name
    ELSE 0

\* BuildingManager.add_reading: the dict after the call.
add_reading(bs, building_name, timestamp, kwh) ==
    LET bs1 == IF Lookup(bs, building_name) = 0
               THEN Append(bs, [name |-> building_name, meter_readings |-> <<>>])
               ELSE bs
        i == Lookup(bs1, building_name)
    IN  [bs1 EXCEPT ![i].meter_readings =
            Append(@, [timestamp |-> timestamp, kwh |-> kwh])]

----------------------------------------------------------------------------
(* TASK 5: generate_summary *)

\* Whether generate_summary raises: df.loc[df["kwh"].idxmax()] has no row to take.
SummaryRaises(df) == idxmax(KwhColumn(df)) = 0

\* The row generate_summary reports as the peak.
peak_row(df) == df[idxmax(KwhColumn(df))]

TotalColumn(sdf) == [i \in 1..Len(sdf) |-> sdf[i].total]

\* The values summary_text is formatted from.
generate_summary(df, sdf) ==
    [total_consumption |-> pd_sum(KwhColumn(df)),
     highest_building |-> sdf[idxmax(TotalColumn(sdf))].building,
     peak_time |-> peak_row(df).timestamp,
     peak_load |-> peak_row(df).kwh,
     daily_min |-> pd_min(KwhColumn(calculate_daily_totals(df))),
     daily_max |-> pd_max(KwhColumn(calculate_daily_totals(df))),
     weekly_min |-> pd_min(KwhColumn(calculate_weekly_aggregates(df))),
     weekly_max |-> pd_max(KwhColumn(calculate_weekly_aggregates(df)))]

----------------------------------------------------------------------------
(* The state machine *)

Init ==
    /\ data_exists \in BOOLEAN
    /\ \E c \in RowCounts(MaxRows) :
          \E h1 \in FileHeads(c[1]), h2 \in FileHeads(c[2]) :
             \E f1 \in FilesOf(h1, c[1]), f2 \in FilesOf(h2, c[2]) : files = <<f1, f2>>
    /\ data_exists = FALSE => \A i \in 1..Len(Stems) : files[i] = Absent
    /\ todo = {i \in 1..Len(Stems) : files[i].present}
    /\ combined_df = <<>>
    /\ log = {}
    /\ pc = "load"
    /\ summary_df = <<>>
    /\ outputs = NoOutputs
    /\ stdout = <<"Loading data...">>
    /\ buildings = <<>>
    /\ fed = 0
    /\ run = 1
    /\ first_outputs = NoOutputs

\* load_energy_data, lines 24-26: the folder does not exist.
FolderMissing ==
    /\ pc = "load"
    /\ ~data_exists
    /\ log' = log \cup {"data"}
    /\ pc' = "loaded"
    /\ UNCHANGED <<data_exists, files, todo, combined_df, summary_df, outputs,
                   stdout, buildings, fed, run, first_outputs>>

\* One pass of the loop of load_energy_data, lines 28-47, on the file glob yields.
ProcessFile(i) ==
    /\ pc = "load"
    /\ data_exists
    /\ i \in todo
    /\ todo' = todo \ {i}
    /\ IF ProcessingError(files[i]) = ""
       THEN /\ combined_df' = concat(combined_df, Frame(Stems[i], files[i]))
            /\ log' = log
       ELSE /\ combined_df' = combined_df
            /\ log' = log \cup {Stems[i]}
    /\ UNCHANGED <<data_exists, files, pc, summary_df, outputs, stdout, buildings,
                   fed, run, first_outputs>>

\* load_energy_data, line 49: glob is exhausted and the table is returned.
LoadReturn ==
    /\ pc = "load"
    /\ data_exists
    /\ todo = {}
    /\ pc' = "loaded"
    /\ UNCHANGED <<data_exists, files, todo, combined_df, log, summary_df, outputs,
                   stdout, buildings, fed, run, first_outputs>>

\* A test that never finds the table empty (df is None).
is_empty_Never(df) == Len(df) < 0

\* df.empty
is_empty(df) == Len(df) = 0

\* main, lines 184-186: nothing was loaded.
NoData ==
    /\ pc = "loaded"
    /\ is_empty(combined_df)
    /\ stdout' = Append(stdout, "No data found. Check /data folder.")
    /\ pc' = "nodata"
    /\ UNCHANGED <<data_exists, files, todo, combined_df, log, summary_df, outputs,
                   buildings, fed, run, first_outputs>>

\* main, lines 188-195: the building summary, the two CSV files and the
\* dashboard that create_dashboard saves.
ProcessSummaries ==
    /\ pc = "loaded"
    /\ ~is_empty(combined_df)
    /\ summary_df' = building_wise_summary(combined_df)
    /\ outputs' = [outputs EXCEPT !.building_summary_csv = <<summary_df'>>,
                                  !.cleaned_energy_data_csv = <<combined_df>>,
                                  !.dashboard_png = <<"png">>]
    /\ stdout' = stdout \o <<"Processing summaries...", "Creating dashboard...">>
    /\ pc' = "summary"
    /\ UNCHANGED <<data_exists, files, todo, combined_df, log, buildings, fed, run,
                   first_outputs>>

\* main, lines 197-204: generate_summary writes summary.txt and main prints
\* the list of the files, or generate_summary raises.
GenerateSummary ==
    /\ pc = "summary"
    /\ IF SummaryRaises(combined_df)
       THEN /\ pc' = "crashed"
            /\ outputs' = outputs
            /\ stdout' = Append(stdout, "Generating summary report...")
       ELSE /\ pc' = "done"
            /\ outputs' = [outputs EXCEPT
                    !.summary_txt = <<generate_summary(combined_df, summary_df)>>]
            /\ stdout' = stdout \o <<"Generating summary report...", "summary_text",
                                      "DONE! Files generated:">>
    /\ UNCHANGED <<data_exists, files, todo, combined_df, log, summary_df, buildings,
                   fed, run, first_outputs>>

\* The next row of the table is given to BuildingManager.add_reading.
AddReading ==
    /\ pc = "done"
    /\ fed < Len(combined_df)
    /\ buildings' = add_reading(buildings, combined_df[fed + 1].building,
                                combined_df[fed + 1].timestamp, combined_df[fed + 1].kwh)
    /\ fed' = fed + 1
    /\ UNCHANGED <<data_exists, files, todo, combined_df, log, pc, summary_df, outputs,
                   stdout, run, first_outputs>>

\* The pipeline is started a second time on the unchanged directory; the files
\* the first run wrote stay on disk.
Rerun ==
    /\ pc \in {"done", "nodata", "crashed"}
    /\ run = 1
    /\ fed = 0
    /\ run' = 2
    /\ first_outputs' = outputs
    /\ todo' = {i \in 1..Len(Stems) : files[i].present}
    /\ combined_df' = <<>>
    /\ summary_df' = <<>>
    /\ stdout' = <<"Loading data...">>
    /\ pc' = "load"
    /\ UNCHANGED <<data_exists, files, log, outputs, buildings, fed>>

Next ==
    \/ FolderMissing
    \/ \E i \in 1..Len(Stems) : ProcessFile(i)
    \/ LoadReturn
    \/ NoData
    \/ ProcessSummaries
    \/ GenerateSummary

Spec == Init /\ [][Next]_vars

\* The pipeline, and then the table given row by row to a BuildingManager.
SpecManager == Init /\ [][Next \/ AddReading]_vars

\* Two runs of the pipeline, one after the other.
SpecRerun == Init /\ [][Next \/ Rerun]_vars

----------------------------------------------------------------------------
(* The claims *)

Present == {i \in 1..Len(Stems) : files[i].present}

\* A file fails validation: it cannot be read, it has no timestamp column, it
\* has no kwh column, or one of its timestamps cannot be parsed.
FailsValidation(f) ==
    \/ ~f.readable
    \/ "timestamp" \notin f.columns
    \/ "kwh" \notin f.columns
    \/ \E j \in 1..Len(f.rows) : f.rows[j].timestamp.kind = "text"

\* The value of a cell in the table: missing when the cell is empty.
CellValue(cell) == IF cell.kind = "value" THEN <<cell.v>> ELSE <<>>

\* The row of the table that row j of file i is to become.
TableRow(i, j) ==
    [timestamp |-> CellValue(files[i].rows[j].timestamp),
     kwh |-> CellValue(files[i].rows[j].kwh),
     building |-> Stems[i]]

\* How often a row occurs in a table.
Count(df, r) == Cardinality({k \in 1..Len(df) : df[k] = r})

\* C1: a pass of the loader's loop over a file that fails validation leaves
\* the table as it was and stays in the loop, so that the files glob has yet
\* to yield are still processed; the loop returns only when glob is
\* exhausted, and no row of the table comes from a file that fails validation.
C1_FailingFileIsSkipped ==
    /\ [][\A i \in 1..Len(Stems) :
            (pc = "load" /\ i \in todo /\ i \notin todo' /\ FailsValidation(files[i]))
                => /\ combined_df' = combined_df
                   /\ pc' = "load"
                   /\ todo' = todo \ {i}
                   /\ Stems[i] \in log']_vars
    /\ [][(pc = "load" /\ pc' # "load") => (pc' = "loaded" /\ (data_exists => todo = {}))]_vars
    /\ [](\A k \in 1..Len(combined_df) : \A i \in 1..Len(Stems) :
            combined_df[k].building = Stems[i] => ~FailsValidation(files[i]))

\* C1 witness: the loop has ended, a file with rows failed validation and was
\* logged, and the table holds the rows of another file.
C1_Witness ==
    /\ pc = "loaded"
    /\ todo = {}
    /\ combined_df # <<>>
    /\ \E i \in Present :
        /\ FailsValidation(files[i])
        /\ files[i].rows # <<>>
        /\ Stems[i] \in log

\* C2: in the table the loader returns, every row of a file with both columns
\* and no unparseable timestamp is in the table exactly as often as in the
\* file, tagged with the file's stem, and the table has no other rows.
C2_ValidRowsExactlyOnce ==
    pc = "loaded" =>
        /\ \A i \in Present : ~FailsValidation(files[i]) =>
              \A j \in 1..Len(files[i].rows) :
                  Count(combined_df, TableRow(i, j))
                    = Cardinality({m \in 1..Len(files[i].rows) : TableRow(i, m) = TableRow(i, j)})
        /\ \A k \in 1..Len(combined_df) :
              \E i \in Present :
                  /\ ~FailsValidation(files[i])
                  /\ \E j \in 1..Len(files[i].rows) : combined_df[k] = TableRow(i, j)

\* C2 witness: two valid files with rows, and both are in the returned table.
C2_Witness ==
    /\ pc = "loaded"
    /\ \A i \in 1..Len(Stems) :
          /\ files[i].present /\ ~FailsValidation(files[i]) /\ files[i].rows # <<>>
          /\ \E k \in 1..Len(combined_df) : combined_df[k].building = Stems[i]

\* C3: when the loader returns an empty table, main prints the no-data
\* message and stops: no summary is computed and none of the four output
\* files is written.
C3_EmptyTableStopsMain ==
    (pc # "load" /\ combined_df = <<>>) =>
        /\ pc \in {"loaded", "nodata"}
        /\ outputs = NoOutputs
        /\ summary_df = <<>>
        /\ pc = "nodata" => stdout[Len(stdout)] = "No data found. Check /data folder."

\* C3 witness: main has stopped with the no-data message although the
\* directory holds a file with rows (which failed validation).
C3_Witness ==
    /\ pc = "nodata"
    /\ data_exists
    /\ \E i \in Present : files[i].rows # <<>>

\* C4 (as claimed): every row of the table has a timestamp and a kWh value.
C4_NoNullInTable ==
    \A k \in 1..Len(combined_df) :
        ~IsNull(combined_df[k].timestamp) /\ ~IsNull(combined_df[k].kwh)

\* C5 (as claimed): no exception escapes main.
C5_MainNeverRaises == pc # "crashed"

\* The Building of a name in the manager's dict.
BuildingOf(name) == buildings[Lookup(buildings, name)]

\* C6 (as claimed): when the whole table has been given to add_reading, the
\* summary has one row per building of the table, and each row's total is
\* that building's calculate_total_consumption().
C6_SummaryAgreesWithManager ==
    (pc = "done" /\ fed = Len(combined_df)) =>
        /\ \A k \in 1..Len(combined_df) :
              Cardinality({m \in 1..Len(summary_df) :
                              summary_df[m].building = combined_df[k].building}) = 1
        /\ \A m \in 1..Len(summary_df) :
              /\ Lookup(buildings, summary_df[m].building) # 0
              /\ summary_df[m].total
                    = calculate_total_consumption(BuildingOf(summary_df[m].building))

\* C7 (as claimed): the daily totals add up to the sum of all kWh of the table.
C7_DailyTotalsConserveEnergy ==
    pc # "load" =>
        pd_sum(KwhColumn(calculate_daily_totals(combined_df))) = pd_sum(KwhColumn(combined_df))

\* C8 (as claimed): a second run on the unchanged directory writes the same
\* building_summary.csv and the same summary.txt as the first.
C8_RerunWritesSameFiles ==
    (run = 2 /\ pc = "done") =>
        /\ outputs.building_summary_csv = first_outputs.building_summary_csv
        /\ outputs.summary_txt = first_outputs.summary_txt

\* The kWh values of the table that are not NaN.
KwhValues == {combined_df[k].kwh[1] : k \in {m \in 1..Len(combined_df) : ~IsNull(combined_df[m].kwh)}}

\* C9: the summary reports as peak load the largest kWh of the table, and as
\* peak time the timestamp of the first row of the table that holds it.
C9_PeakIsFirstMaximum ==
    pc = "done" =>
        LET txt == outputs.summary_txt[1]
        IN  /\ KwhValues # {}
            /\ \A v \in KwhValues : v <= txt.peak_load[1]
            /\ \E k \in 1..Len(combined_df) :
                  /\ combined_df[k].kwh = txt.peak_load
                  /\ \A m \in 1..(k - 1) : combined_df[m].kwh # txt.peak_load
                  /\ txt.peak_time = combined_df[k].timestamp

\* C9 witness: the summary is written for a table whose largest kWh is held
\* by two rows with different timestamps, and it reports the timestamp of
\* the earlier row of the two.
C9_Witness ==
    /\ pc = "done"
    /\ \E k, m \in 1..Len(combined_df) :
          /\ k < m
          /\ combined_df[k].kwh = combined_df[m].kwh
          /\ ~IsNull(combined_df[k].kwh)
          /\ combined_df[k].timestamp # combined_df[m].timestamp
          /\ \A v \in KwhValues : v <= combined_df[k].kwh[1]
          /\ outputs.summary_txt[1].peak_time = combined_df[k].timestamp

\* The days on which the table has a reading.
ReadingDays ==
    {d \in 0..MaxTs : \E k \in 1..Len(combined_df) :
        /\ ~IsNull(combined_df[k].timestamp)
        /\ 24 * d <= combined_df[k].timestamp[1]
        /\ combined_df[k].timestamp[1] < 24 * (d + 1)}

\* The sum of the kWh of the rows of the table whose positions are in S.
RECURSIVE KwhOfRows(_)
KwhOfRows(S) ==
    IF S = {} THEN 0
    ELSE LET k == CHOOSE x \in S : TRUE
         IN  (IF IsNull(combined_df[k].kwh) THEN 0 ELSE combined_df[k].kwh[1])
                + KwhOfRows(S \ {k})

\* The rows of the table read on day d.
RowsOnDay(d) ==
    {k \in 1..Len(combined_df) :
        /\ ~IsNull(combined_df[k].timestamp)
        /\ 24 * d <= combined_df[k].timestamp[1]
        /\ combined_df[k].timestamp[1] < 24 * (d + 1)}

====
